---- MODULE Spec2Model ----
(***************************************************************************)
(* Model of the price-acquisition engine of gilded-promise (src/server.js). *)
(*                                                                         *)
(* Prices are kept in thousandths of a USD, so 92.67 is 92670 and the      *)
(* unset price 0 is 0.  Texts are tuples of one-character strings.         *)
(*                                                                         *)
(* One refresh cycle is one call of fetchGoldPriceWithRetry; the calls in   *)
(* flight are a bag of records, one per call, holding the call's locals.   *)
(* A cycle's position is the await it is suspended at:                     *)
(*   "launch"    chromium.launch                        (line 20)          *)
(*   "page"      newContext/newPage/goto/waitForSelector (lines 24-34),    *)
(*               then $$ / li.$ / innerText             (lines 35-64)      *)
(*   "close"     browser.close in the finally block     (line 84)          *)
(* Code that runs between two awaits runs in one step, as the event loop   *)
(* runs it.  The awaits of lines 24-64 are one position: between them the  *)
(* code reads and writes nothing but locals of the attempt, and a          *)
(* rejection of any of them runs the same catch block.                     *)
(*                                                                         *)
(* The handler of GET /api/products (lines 100-137) is one step.  Weights  *)
(* are tenths of a gram, popularity scores hundredths, ratings thousandths *)
(* and response prices whole USD.  The arithmetic is exact; the fixtures   *)
(* are values on which the doubles of the code round the same way.  Cached *)
(* prices are not negative.                                                *)
(*                                                                         *)
(* Specifications:                                                         *)
(*   Spec         the server: cycles, timer and requests                   *)
(*   SpecHistory  Spec with each call's start and committed price recorded *)
(*   SpecFaulty   Spec with a browser.close that can reject                *)
(*   SpecQuery    the request handler over many catalogs, prices, queries  *)
(***************************************************************************)
EXTENDS Integers, Sequences, FiniteSets, Bags, TLC

\* ------------------------------------------------------------------ bounds

\* Number of cycles that can be in flight at once.
MaxInFlight == 2

\* Number of browsers left open by calls that have ended (a close that
\* rejected) up to which the model follows the process.
MaxOrphans == 1

\* ------------------------------------------------------- program constants

\* retries = 3, the default parameter of fetchGoldPriceWithRetry.
Retries == 3

\* goldPrice = 92.67, the fallback, in thousandths.
DefaultPrice == 92670

\* let goldPrice = 0, the initial (unset) value.
UnsetPrice == 0

\* `let browser;` (line 17): undefined.  A launched browser is named by the
\* attempt (1 .. Retries) that launched it.
NoBrowser == 0

\* -------------------------------------------------------------------- text

Digits == {"0", "1", "2", "3", "4", "5", "6", "7", "8", "9"}

DigitVal(ch) ==
  CASE ch = "0" -> 0 [] ch = "1" -> 1 [] ch = "2" -> 2 [] ch = "3" -> 3
    [] ch = "4" -> 4 [] ch = "5" -> 5 [] ch = "6" -> 6 [] ch = "7" -> 7
    [] ch = "8" -> 8 [] ch = "9" -> 9

IsSpace(ch) == ch = " "

\* String.prototype.toLowerCase, on the letters the fixtures use.
LowerChar(ch) ==
  CASE ch = "G" -> "g" [] ch = "R" -> "r" [] ch = "A" -> "a" [] ch = "M" -> "m"
    [] ch = "O" -> "o" [] ch = "Z" -> "z"
    [] OTHER -> ch

ToLowerCase(s) == [i \in 1 .. Len(s) |-> LowerChar(s[i])]

\* String.prototype.includes
Includes(s, sub) ==
  \E i \in 1 .. (Len(s) - Len(sub) + 1) :
    \A j \in 1 .. Len(sub) : s[i + j - 1] = sub[j]

RECURSIVE TrimStart(_)
TrimStart(s) ==
  IF s # <<>> /\ IsSpace(Head(s)) THEN TrimStart(Tail(s)) ELSE s

RECURSIVE TrimEnd(_)
TrimEnd(s) ==
  IF s # <<>> /\ IsSpace(s[Len(s)]) THEN TrimEnd(SubSeq(s, 1, Len(s) - 1)) ELSE s

\* String.prototype.trim
Trim(s) == TrimEnd(TrimStart(s))

\* s.replace(",", "."): a string pattern replaces the FIRST occurrence only.
ReplaceFirstComma(s) ==
  IF \E i \in 1 .. Len(s) : s[i] = ","
  THEN LET k == CHOOSE i \in 1 .. Len(s) :
                  s[i] = "," /\ \A j \in 1 .. (i - 1) : s[j] # ","
       IN  [i \in 1 .. Len(s) |-> IF i = k THEN "." ELSE s[i]]
  ELSE s

RECURSIVE DigitRun(_, _)
\* Length of the run of decimal digits of s that starts at position i.
DigitRun(s, i) ==
  IF i <= Len(s) /\ s[i] \in Digits THEN 1 + DigitRun(s, i + 1) ELSE 0

RECURSIVE DigitsValue(_, _, _)
\* Value of the n decimal digits of s that start at position i.
DigitsValue(s, i, n) ==
  IF n = 0 THEN 0 ELSE DigitsValue(s, i, n - 1) * 10 + DigitVal(s[i + n - 1])

Pow10(n) == CASE n = 0 -> 1 [] n = 1 -> 10 [] n = 2 -> 100 [] OTHER -> 1000

NaN == <<>>

\* parseFloat: leading white space is skipped, then the longest prefix that
\* is a decimal literal (sign, digits, ".", digits) is converted; text after
\* it is ignored; NaN when that prefix holds no digit.  The result is <<v>>
\* with v in thousandths (fixtures carry at most three fraction digits and
\* no exponent), or NaN.
ParseFloat(str) ==
  LET s     == TrimStart(str)
      neg   == s # <<>> /\ s[1] = "-"
      i0    == IF s # <<>> /\ s[1] \in {"-", "+"} THEN 2 ELSE 1
      n1    == DigitRun(s, i0)
      dot   == i0 + n1 <= Len(s) /\ s[i0 + n1] = "."
      n2    == IF dot THEN DigitRun(s, i0 + n1 + 1) ELSE 0
      k     == IF n2 > 3 THEN 3 ELSE n2
      whole == DigitsValue(s, i0, n1)
      frac  == DigitsValue(s, i0 + n1 + 1, k) * Pow10(3 - k)
      mag   == whole * 1000 + frac
  IN  IF n1 + n2 = 0 THEN NaN
      ELSE <<IF neg THEN 0 - mag ELSE mag>>

IsNaN(r) == r = NaN

\* -------------------------------------------------------------- extraction

gram == <<"g", "r", "a", "m">>

\* One <li class="flex items-center"> of the rendered page: its priceName
\* <p> (absent, or present with a text, or a lookup that throws) and its
\* convertPrice <p> (absent, or present with a text).
Li(hasLabel, labelThrows, label, hasValue, value) ==
  [hasLabel |-> hasLabel, labelThrows |-> labelThrows, label |-> label,
   hasValue |-> hasValue, value |-> value, down |-> FALSE, rest |-> <<>>]

\* A convertPrice <p>: its text, and whether it carries the class
\* CommodityPrice_down__WC3cT.
PriceP(down, text) == [down |-> down, text |-> text]

\* A li with a readable label and the convertPrice <p> elements ps (at
\* least one), in document order.  targetHandle.$(selector) (line 58)
\* returns the first element that matches: hasValue, value and down
\* describe that one, rest the ones after it.
LiPrices(label, ps) ==
  [hasLabel |-> TRUE, labelThrows |-> FALSE, label |-> label,
   hasValue |-> TRUE, value |-> ps[1].text, down |-> ps[1].down,
   rest |-> Tail(ps)]

\* Mutant of IsTarget: the test of the label's text left out.
IsTargetAnyLabel(li) ==
  /\ ~li.labelThrows
  /\ li.hasLabel

\* The body of the loop over liElements for one li: TRUE when the li is
\* taken as targetHandle.  A missing label and a throwing lookup both
\* `continue`.
IsTarget(li) ==
  /\ ~li.labelThrows
  /\ li.hasLabel
  /\ Includes(ToLowerCase(li.label), gram)

\* Mutant of TargetIndex: the loop without its `break`.
TargetIndexLast(lis) ==
  IF \E i \in 1 .. Len(lis) : IsTarget(lis[i])
  THEN CHOOSE i \in 1 .. Len(lis) :
         IsTarget(lis[i]) /\ \A j \in (i + 1) .. Len(lis) : ~IsTarget(lis[j])
  ELSE 0

\* The loop over liElements: index of the first li taken, 0 when none is.
TargetIndex(lis) ==
  IF \E i \in 1 .. Len(lis) : IsTarget(lis[i])
  THEN CHOOSE i \in 1 .. Len(lis) :
         IsTarget(lis[i]) /\ \A j \in 1 .. (i - 1) : ~IsTarget(lis[j])
  ELSE 0

\* priceStr.trim().replace(",", ".") followed by parseFloat.
ParsePrice(text) == ParseFloat(ReplaceFirstComma(Trim(text)))

\* Lines 35-69 on the list of li elements of a page: [ok |-> TRUE, price]
\* when a price is parsed, [ok |-> FALSE, error] when the attempt throws.
Failure(msg) == [ok |-> FALSE, price |-> 0, error |-> msg]

Extract(lis) ==
  LET k == TargetIndex(lis) IN
  IF k = 0 THEN Failure("Target element not found")
  ELSE IF ~lis[k].hasValue THEN Failure("Price element not found")
  ELSE LET r == ParsePrice(lis[k].value) IN
       IF IsNaN(r) THEN Failure("Could not parse gold price")
       ELSE [ok |-> TRUE, price |-> r[1], error |-> ""]

\* Pages the scraped site can render once waitForSelector has succeeded (at
\* least one li).
OunceLi  == Li(TRUE, FALSE, <<"O", "z">>, TRUE, <<"3", "1", "0", "0">>)
NoNameLi == Li(FALSE, FALSE, <<>>, TRUE, <<"7">>)
ThrowLi  == Li(TRUE, TRUE, <<"G", "r", "a", "m">>, TRUE, <<"8">>)
GramLi(value) == Li(TRUE, FALSE, <<"G", "r", "a", "m">>, TRUE, value)

Pages ==
  { <<OunceLi, NoNameLi, ThrowLi, GramLi(<<" ", "9", "5", ",", "5", " ">>)>>,
    <<GramLi(<<"0", ",", "0", "0">>), GramLi(<<"9", "5", ",", "5">>)>>,
    <<GramLi(<<"9", "6", " ", "U", "S", "D">>), OunceLi>>,
    <<OunceLi>>,
    <<Li(TRUE, FALSE, <<"G", "r", "a", "m">>, FALSE, <<>>)>>,
    <<GramLi(<<"-">>)>> }

\* The li elements a page is made of, for the extraction on its own: a
\* "Gram" li, a "gram" li with another price, a "Kilogram" li, a "Gram" li
\* without price element, and the three li that are not candidates.
LowerGramLi == Li(TRUE, FALSE, <<"g", "r", "a", "m">>, TRUE, <<"9", "7">>)
KilogramLi ==
  Li(TRUE, FALSE, <<"K", "i", "l", "o", "g", "r", "a", "m">>, TRUE, <<"9", "8", "0", "0", "0">>)
NoValueLi == Li(TRUE, FALSE, <<"G", "r", "a", "m">>, FALSE, <<>>)
LiKinds ==
  {GramLi(<<"9", "5", ",", "5">>), LowerGramLi, KilogramLi, NoValueLi, OunceLi,
   NoNameLi, ThrowLi}

\* A "Gram" li with two convertPrice <p>, the price and the change of the
\* day, which carries the down class: the change first, or the price first.
DownFirstLi ==
  LiPrices(<<"G", "r", "a", "m">>,
           <<PriceP(TRUE, <<"0", ",", "8", "5">>), PriceP(FALSE, <<"9", "5", ",", "5">>)>>)
DownLastLi ==
  LiPrices(<<"G", "r", "a", "m">>,
           <<PriceP(FALSE, <<"9", "5", ",", "5">>), PriceP(TRUE, <<"0", ",", "8", "5">>)>>)

\* The texts the price element of the "Gram" li can hold.
PriceTexts ==
  { <<"1", "2", "3", ",", "4", "5">>,
    <<"$", "1", "2", "3", ",", "4", "5">>,
    <<" ", "1", "2", "3", ",", "4", "5", " ">>,
    <<"1", "2", "3", ".", "4", "5">>,
    <<"1", ",", "2", "3", "4", ".", "5", "6">>,
    <<"1", "2", "a", "b", "c">>,
    <<"a", "b", "c">>,
    <<>>,
    <<"-">>,
    <<"9", "6", " ", "U", "S", "D">>,
    <<"0", ",", "0", "0">> }

MaxLis == 2

\* Pages of one to MaxLis li elements, and the one-li pages over PriceTexts.
ExtractPages ==
  UNION {[1 .. n -> LiKinds] : n \in 1 .. MaxLis}
    \cup {<<GramLi(text)>> : text \in PriceTexts}
    \cup {<<DownFirstLi>>, <<DownLastLi>>, <<OunceLi, DownFirstLi>>}

\* What an attempt extracts from each page (Extract, tabulated).
Scraped == [page \in Pages \cup ExtractPages |-> Extract(page)]

\* ------------------------------------------------------------ query engine

\* A value of req.query that is absent (undefined).  A present value is a
\* text; the empty text is what `?minPrice=` gives.
Undefined == <<"undefined">>

\* A record of products.json as the handler reads it: weight in tenths of a
\* gram, popularityScore in hundredths.  The other fields (name, images) are
\* copied to the response by `...product` and read by nothing.
Product(id, weight, popularityScore) ==
  [id |-> id, weight |-> weight, popularityScore |-> popularityScore]

\* (popularityScore + 1) * weight * goldPrice (lines 104-105), in millionths
\* of a USD: hundredths times tenths times thousandths.
ComputedPrice(product, g) ==
  (product.popularityScore + 100) * product.weight * g

PriceScale == 1000000

\* Mutant of MathRound: Math.floor.
MathFloor(num, den) == num \div den

\* Math.round of num/den (den > 0): the nearest integer, a tie going up.
MathRound(num, den) ==
  LET q == num \div den
      r == num % den
  IN  IF 2 * r >= den THEN q + 1 ELSE q

DigitChar(d) ==
  CASE d = 0 -> "0" [] d = 1 -> "1" [] d = 2 -> "2" [] d = 3 -> "3"
    [] d = 4 -> "4" [] d = 5 -> "5" [] d = 6 -> "6" [] d = 7 -> "7"
    [] d = 8 -> "8" [] d = 9 -> "9"

RECURSIVE NatText(_)
\* The decimal digits of a natural number.
NatText(n) ==
  IF n < 10 THEN <<DigitChar(n)>>
  ELSE Append(NatText(n \div 10), DigitChar(n % 10))

\* Number.prototype.toFixed(1) of v hundredths (v >= 0): the text of the
\* nearest number of tenths, the larger one on a tie.
ToFixed1(v) ==
  LET n == (v + 5) \div 10 IN NatText(n \div 10) \o <<".", DigitChar(n % 10)>>

\* The rating of a product (lines 107 and 111), in thousandths:
\* parseFloat((popularityScore * 5).toFixed(1)).
Rating(product) == ParseFloat(ToFixed1(product.popularityScore * 5))[1]

\* The body of products.map (lines 102-113) for one product: the product's
\* fields, price (integer USD) and rating (thousandths).
Priced(product, g) ==
  [id |-> product.id, weight |-> product.weight,
   popularityScore |-> product.popularityScore,
   price |-> MathRound(ComputedPrice(product, g), PriceScale),
   rating |-> Rating(product)]

\* Mutant of PricedAll: goldPrice read again for each product, a scrape
\* having committed 95.5 after the first.
PricedAllTorn(products, g) ==
  [i \in 1 .. Len(products) |-> Priced(products[i], IF i = 1 THEN g ELSE 95500)]

\* products.map (lines 102-113): the callback runs for every product in one
\* synchronous call, reading the same goldPrice.
PricedAll(products, g) == [i \in 1 .. Len(products) |-> Priced(products[i], g)]

\* `if (minPrice)` and the like: undefined and the empty string are falsy.
Truthy(v) == v # Undefined /\ v # <<>>

\* Mutant of AtLeast: the comparison written `>`.
AtLeastStrict(v, b) == ~IsNaN(b) /\ v > b[1]

\* v >= b and v <= b for a number v (thousandths) and a parseFloat result b;
\* every comparison with NaN is false.
AtLeast(v, b) == ~IsNaN(b) /\ v >= b[1]

\* Mutant of AtMost: the upper bounds are not applied.
AtMostIgnored(v, b) == TRUE

AtMost(v, b) == ~IsNaN(b) /\ v <= b[1]

\* price and rating of a priced entry, both in thousandths.
PriceOf(e) == e.price * 1000

RatingOf(e) == e.rating

\* Lines 116-123: the four filters, each applied when its parameter is
\* truthy.
Filtered(result, q) ==
  LET lo == ParseFloat(q.minPrice)
      hi == ParseFloat(q.maxPrice)
      loR == ParseFloat(q.minRating)
      hiR == ParseFloat(q.maxRating)
      MinP(e) == AtLeast(PriceOf(e), lo)
      MaxP(e) == AtMost(PriceOf(e), hi)
      MinR(e) == AtLeast(RatingOf(e), loR)
      MaxR(e) == AtMost(RatingOf(e), hiR)
      r1 == IF Truthy(q.minPrice) THEN SelectSeq(result, MinP) ELSE result
      r2 == IF Truthy(q.maxPrice) THEN SelectSeq(r1, MaxP) ELSE r1
      r3 == IF Truthy(q.minRating) THEN SelectSeq(r2, MinR) ELSE r2
      r4 == IF Truthy(q.maxRating) THEN SelectSeq(r3, MaxR) ELSE r3
  IN  r4

byPrice == <<"p", "r", "i", "c", "e">>

byRating == <<"r", "a", "t", "i", "n", "g">>

byRatio == <<"r", "a", "t", "i", "o">>

Sign(x) == IF x < 0 THEN 0 - 1 ELSE IF x > 0 THEN 1 ELSE 0

\* rating / price of an entry whose price is not negative: "nan" for 0/0,
\* "inf" for a positive rating over 0, else the quotient (kept as the pair).
RatioKind(e) ==
  IF e.price = 0 THEN (IF e.rating = 0 THEN "nan" ELSE "inf") ELSE "finite"

\* b.rating / b.price - a.rating / a.price (line 132): NaN, or <<its
\* sign>>.  0/0 is NaN and inf - inf is NaN.
RatioDifference(a, b) ==
  LET ka == RatioKind(a)
      kb == RatioKind(b)
  IN  IF ka = "nan" \/ kb = "nan" THEN NaN
      ELSE IF ka = "inf" /\ kb = "inf" THEN NaN
      ELSE IF kb = "inf" THEN <<1>>
      ELSE IF ka = "inf" THEN <<0 - 1>>
      ELSE <<Sign(b.rating * a.price - a.rating * b.price)>>

\* The ratio comparator as the sort reads it: a NaN result counts as 0.
CompareRatio(a, b) ==
  LET d == RatioDifference(a, b) IN IF IsNaN(d) THEN 0 ELSE d[1]

\* Mutant of Compare: the rating comparator written a.rating - b.rating.
CompareRatingAscending(by, a, b) ==
  IF by = byPrice THEN Sign(a.price - b.price)
  ELSE IF by = byRating THEN Sign(a.rating - b.rating)
  ELSE CompareRatio(a, b)

\* The comparator of lines 128, 130 and 132 for sortBy = by, as a sign.
Compare(by, a, b) ==
  IF by = byPrice THEN Sign(a.price - b.price)
  ELSE IF by = byRating THEN Sign(b.rating - a.rating)
  ELSE CompareRatio(a, b)

\* The comparator is a consistent comparator for the elements of s
\* (ECMAScript, Array.prototype.sort).
Consistent(by, s) ==
  \A i, j, k \in 1 .. Len(s) :
    LET c(x, y) == Compare(by, s[x], s[y]) IN
    /\ c(i, i) = 0
    /\ c(i, j) = 0 => c(j, i) = 0
    /\ (c(i, j) = 0 /\ c(j, k) = 0) => c(i, k) = 0
    /\ (c(i, j) < 0 /\ c(j, k) < 0) => c(i, k) < 0
    /\ (c(i, j) > 0 /\ c(j, k) > 0) => c(i, k) > 0

\* The rearrangements of n positions.
Orders(n) ==
  {f \in [1 .. n -> 1 .. n] : \A i, j \in 1 .. n : f[i] = f[j] => i = j}

\* Array.prototype.sort with the comparator of `by`: with a consistent
\* comparator, the one stable ordering (elements that compare equal keep
\* their order); otherwise the order is implementation-defined, any
\* permutation.
SortOutcomes(by, s) ==
  LET n == Len(s)
      Ordered(f) ==
        \A i, j \in 1 .. n :
          i < j => \/ Compare(by, s[f[i]], s[f[j]]) < 0
                   \/ Compare(by, s[f[i]], s[f[j]]) = 0 /\ f[i] < f[j]
      orders == IF Consistent(by, s)
                THEN {f \in Orders(n) : Ordered(f)}
                ELSE Orders(n)
  IN  { [i \in 1 .. n |-> s[f[i]]] : f \in orders }

\* Mutant of Ordering: an unrecognised sortBy orders by price.
OrderingDefaultsToPrice(result, sortBy) ==
  IF Truthy(sortBy)
  THEN SortOutcomes(IF sortBy \in {byPrice, byRating, byRatio}
                    THEN sortBy ELSE byPrice, result)
  ELSE {result}

\* Lines 126-134: the bodies the ordering step can leave.
Ordering(result, sortBy) ==
  IF Truthy(sortBy) /\ sortBy \in {byPrice, byRating, byRatio}
  THEN SortOutcomes(sortBy, result)
  ELSE {result}

\* The arrays the handler can pass to res.json for the query q.
Answers(products, g, q) == Ordering(Filtered(PricedAll(products, g), q), q.sortBy)

\* Mutant of CatalogAfter: the sort applied to `products` itself.
CatalogSortedInPlace(products, body) ==
  IF Len(body) = Len(products)
  THEN [i \in 1 .. Len(products) |->
          CHOOSE product \in {products[j] : j \in 1 .. Len(products)} :
            product.id = body[i].id]
  ELSE products

\* `products` after the handler has answered with body: products.map
\* (line 102) builds a new array, which filter replaces and sort orders in
\* place; `products` itself is written by nothing.
CatalogAfter(products, body) == products

\* res.json(result) (line 136): the status of the response.
StatusOK == 200

\* ---------------------------------------------------------------- fixtures

Query(minPrice, maxPrice, minRating, maxRating, sortBy) ==
  [minPrice |-> minPrice, maxPrice |-> maxPrice, minRating |-> minRating,
   maxRating |-> maxRating, sortBy |-> sortBy]

NoQuery == Query(Undefined, Undefined, Undefined, Undefined, Undefined)

malformed == <<"a", "b", "c">>

\* The catalog the server runs with: 2.0 g at 0.50, 1.0 g at 0.80 and 4.0 g
\* at 0.00.
ServerCatalog ==
  <<Product(1, 20, 50), Product(2, 10, 80), Product(3, 40, 0)>>

\* Catalogs for the query engine on its own: the server's; one ring of 2 g
\* at 0.50; two equal products, a 0.1 g product at 0.00 and a 9 g product at
\* 1.00; ratings that fall on a tie of toFixed (4.25 and 0.05).
Catalogs ==
  { ServerCatalog,
    <<Product(1, 20, 50)>>,
    <<Product(1, 10, 50), Product(2, 10, 50), Product(3, 1, 0), Product(4, 90, 100)>>,
    <<Product(1, 10, 85), Product(2, 1, 1)>> }

\* Cached prices for the query engine on its own: 0, 0.10, 1.00, 92.67 and
\* 100.00 USD.
QueryPrices == {0, 100, 1000, DefaultPrice, 100000}

\* Every value goldPrice takes in the model.
Prices == QueryPrices \cup {UnsetPrice} \cup {Scraped[page].price : page \in Pages}

three == <<"3", "0", "0">>

Queries ==
  { Query(a, b, c, d, e) :
      a \in {Undefined, <<>>, malformed, <<"2">>, three},
      b \in {Undefined, malformed, three},
      c \in {Undefined, <<"2", ".", "5">>},
      d \in {Undefined, malformed, <<"4", ".", "3">>},
      e \in {Undefined, byPrice, byRating, byRatio, <<"n", "a", "m", "e">>} }

\* The queries sent to the running server.
ServerQueries ==
  { NoQuery,
    Query(three, Undefined, Undefined, <<"4", ".", "3">>, byPrice),
    Query(Undefined, malformed, Undefined, Undefined, Undefined),
    Query(three, three, Undefined, Undefined, byRating),
    Query(Undefined, Undefined, Undefined, Undefined, byRatio) }

\* Answers, tabulated.
Answered ==
  [c \in Catalogs |-> [g \in Prices |-> [q \in Queries |-> Answers(c, g, q)]]]

\* ---------------------------------------------------------------- frontend

\* script.js, the values of the five inputs of the filter form (lines
\* 127-131), each a string, "" when the input is empty.
Form(minPrice, maxPrice, minRating, maxRating, orderBy) ==
  [minPrice |-> minPrice, maxPrice |-> maxPrice, minRating |-> minRating,
   maxRating |-> maxRating, orderBy |-> orderBy]

\* `value || undefined` (lines 133-137).
OrUndefined(value) == IF value = <<>> THEN Undefined ELSE value

\* The filters object the click handler builds (lines 132-138).
FiltersOf(form) ==
  [minPrice |-> OrUndefined(form.minPrice), maxPrice |-> OrUndefined(form.maxPrice),
   minRating |-> OrUndefined(form.minRating), maxRating |-> OrUndefined(form.maxRating),
   sortBy |-> OrUndefined(form.orderBy)]

\* The filters of the initial load, `filters = {}` (lines 97, 123).
NoFilters == FiltersOf(Form(<<>>, <<>>, <<>>, <<>>, <<>>))

\* `if (filters.x) params.append("x", filters.x)` (lines 101-105).
Param(v) == IF Truthy(v) THEN v ELSE Undefined

\* The query string fetchProducts sends (lines 99-108), as the req.query the
\* service reads from it: a parameter is present when its filter is truthy.
ParamsOf(filters) ==
  Query(Param(filters.minPrice), Param(filters.maxPrice), Param(filters.minRating),
        Param(filters.maxRating), Param(filters.sortBy))

\* What the user can have typed when the filter button is clicked: nothing,
\* a lowest price of 300 ordered by price, or an ordering by rating.
Forms ==
  { Form(<<>>, <<>>, <<>>, <<>>, <<>>),
    Form(three, <<>>, <<>>, <<>>, byPrice),
    Form(<<>>, <<>>, <<>>, <<>>, byRating) }

\* A response whose body response.json() rejects: not JSON (an error page of
\* the host).
NotJson == [json |-> FALSE, products |-> <<>>]

\* A response whose body is the JSON of the array `products`.
Json(products) == [json |-> TRUE, products |-> products]

\* A call of fetchProducts suspended at `await fetch(...)` (line 110): the
\* n-th call issued.
FetchCall(n, filters) ==
  [n |-> n, query |-> ParamsOf(filters), pc |-> "fetch", response |-> NotJson]

\* What became of a call of fetchProducts (history).
Pending == [state |-> "pending", products |-> <<>>]

Failed == [state |-> "failed", products |-> <<>>]

Rendered(products) == [state |-> "rendered", products |-> products]

\* No page is open.
\*   on        a page running script.js is open
\*   loading   loadingOverlay.style.display is "flex" (lines 17-22)
\*   fetches   the calls of fetchProducts in flight
\*   issued    history: the number of calls of fetchProducts made
\*   shown     renderProducts has run
\*   rendered  the array renderProducts was last called with (lines 44-94)
\*   results   history: what became of each call, in the order of the calls
NoPage ==
  [on |-> FALSE, loading |-> FALSE, fetches |-> {}, issued |-> 0,
   shown |-> FALSE, rendered |-> <<>>, results |-> <<>>]

\* fetchProducts(filters) up to its first await (lines 97-110):
\* showLoading(), then the request is sent.
Issue(page, filters) ==
  [page EXCEPT !.on = TRUE,
               !.loading = TRUE,
               !.fetches = @ \cup {FetchCall(page.issued + 1, filters)},
               !.issued = @ + 1,
               !.results = Append(@, Pending)]

\* hideLoading() (lines 20-22, called at line 118).
HideLoading(page) == [page EXCEPT !.loading = FALSE]

\* The call c leaves fetchProducts through `finally` (lines 117-119).
Finally(page, c, result) ==
  HideLoading([page EXCEPT !.fetches = @ \ {c}, !.results[c.n] = result])

\* ------------------------------------------------------------------- state

VARIABLES
  goldPrice,        \* let goldPrice (line 14), thousandths of a USD
  cycles,           \* the calls of fetchGoldPriceWithRetry in flight
  orphans,          \* browsers still open whose call has returned
  initialResolved,  \* the promise awaited at line 95 has resolved
  timerOn,          \* setInterval has been called (line 97)
  routeOn,          \* the /api/products route is registered (line 100)
  listening,        \* app.listen has been called (line 144)
  lastReq,          \* <<goldPrice read>> by the last request handled, or <<>>
  request,          \* req.query of the last request handled
  response,         \* the response to it: its status and its JSON body
  catalog,          \* products, as loaded from products.json (line 4)
  everScraped,      \* history: some attempt has assigned a scraped price (line 70)
  recording,        \* the calls' startGold and committed are recorded
  scrape,           \* history: what the last extraction read and made of it
  unhandled,        \* what became of a rejected call: "none" while no call rejected
  frontend          \* the page script.js runs in: overlay, fetches, rendered list

vars == <<goldPrice, cycles, orphans, initialResolved, timerOn, routeOn,
          listening, lastReq, request, response, catalog, everScraped,
          recording, scrape, unhandled, frontend>>

server == <<initialResolved, timerOn, routeOn, listening>>

\* What the request handler writes, and the catalog nothing writes.
answer == <<lastReq, request, response, catalog>>

\* A call of fetchGoldPriceWithRetry that has just entered its loop:
\* `browser` is undefined, attempt = 1 and chromium.launch is awaited.
\*   pc         the await the call is suspended at
\*   attempt    the loop variable
\*   browser    the variable `browser`
\*   open       the attempts of this call whose browser is open
\*   returning  the try block has reached `return` (line 72)
\*   startGold  history: goldPrice when the call started
\*   committed  history: the price the call assigned at line 70
\*   fallbackAt history: the attempt whose catch took the branch of line 75
\*   watched    history: the call is the one SpecLive follows to its end
\* startGold and committed are recorded under SpecHistory only (they stay 0
\* under Spec, whose claims do not read them).
Recorded(g) == IF recording THEN g ELSE 0

EnterCycle(g) ==
  [pc |-> "launch", attempt |-> 1, browser |-> NoBrowser, open |-> {},
   returning |-> FALSE, startGold |-> Recorded(g), committed |-> 0,
   fallbackAt |-> 0, watched |-> FALSE]

\* No extraction recorded.
NotScraping ==
  [on |-> FALSE, attempt |-> 0, lis |-> <<>>, result |-> Failure("")]

\* The record of the extraction the attempt makes of the li elements `page`
\* (lines 35-69); kept under SpecExtract only.
Scraping(attempt, page) ==
  IF scrape.on
  THEN [on |-> TRUE, attempt |-> attempt, lis |-> page, result |-> Scraped[page]]
  ELSE scrape

InFlight == BagToSet(cycles)

TypeOK ==
  /\ goldPrice \in Int
  /\ IsABag(cycles)
  /\ \A r \in InFlight :
       /\ r.pc \in {"launch", "page", "close"}
       /\ r.attempt \in 1 .. Retries
       /\ r.browser \in {NoBrowser} \cup (1 .. Retries)
       /\ r.open \subseteq 1 .. Retries
       /\ r.returning \in BOOLEAN
       /\ r.startGold \in Int /\ r.committed \in Int
       /\ r.fallbackAt \in 0 .. Retries
       /\ r.watched \in BOOLEAN
  /\ BagCardinality(cycles) <= MaxInFlight
  /\ orphans \in Nat
  /\ initialResolved \in BOOLEAN /\ timerOn \in BOOLEAN
  /\ routeOn \in BOOLEAN /\ listening \in BOOLEAN
  /\ lastReq = <<>> \/ (Len(lastReq) = 1 /\ lastReq[1] \in Int)
  /\ DOMAIN request = DOMAIN NoQuery
  /\ response.status \in {0, StatusOK}
  /\ \A i \in 1 .. Len(response.body) :
       response.body[i].price \in Int /\ response.body[i].rating \in Int
  /\ \A i \in 1 .. Len(catalog) :
       catalog[i].weight > 0 /\ catalog[i].popularityScore \in 0 .. 100
  /\ everScraped \in BOOLEAN
  /\ recording \in BOOLEAN
  /\ scrape.on \in BOOLEAN /\ scrape.attempt \in 0 .. Retries
  /\ unhandled \in {"none", "warned", "exited"}
  /\ frontend.on \in BOOLEAN /\ frontend.loading \in BOOLEAN
  /\ frontend.issued = Len(frontend.results)
  /\ \A c \in frontend.fetches : c.n \in 1 .. frontend.issued

\* startServer() has been called: goldPrice is 0 and the initial cycle, which
\* startServer awaits, is suspended at its first chromium.launch.
Started ==
  /\ goldPrice = UnsetPrice
  /\ cycles = SetToBag({EnterCycle(UnsetPrice)})
  /\ orphans = 0
  /\ initialResolved = FALSE
  /\ timerOn = FALSE
  /\ routeOn = FALSE
  /\ listening = FALSE
  /\ lastReq = <<>>
  /\ request = NoQuery
  /\ response = [status |-> 0, body |-> <<>>]
  /\ catalog = ServerCatalog
  /\ everScraped = FALSE
  /\ unhandled = "none"
  /\ frontend = NoPage

Init == recording = FALSE /\ scrape = NotScraping /\ Started

InitHistory == recording = TRUE /\ scrape = NotScraping /\ Started

\* The server up and idle between two refreshes, for the query engine on its
\* own: some catalog loaded, some price cached by an earlier scrape.
InitQuery ==
  /\ recording = FALSE
  /\ scrape = NotScraping
  /\ goldPrice \in QueryPrices
  /\ cycles = EmptyBag
  /\ orphans = 0
  /\ initialResolved = TRUE
  /\ timerOn = TRUE
  /\ routeOn = TRUE
  /\ listening = TRUE
  /\ lastReq = <<>>
  /\ request = NoQuery
  /\ response = [status |-> 0, body |-> <<>>]
  /\ catalog \in Catalogs
  /\ everScraped = TRUE
  /\ unhandled = "none"
  /\ frontend = NoPage

\* fetchGoldPriceWithRetry on its own, with the extractions recorded: the
\* initial call of a server just started, or a call the timer has just made
\* on a server that holds a scraped price.
CachedPrices == {UnsetPrice, 95500}

InitExtract ==
  /\ recording = FALSE
  /\ scrape = [NotScraping EXCEPT !.on = TRUE]
  /\ goldPrice \in CachedPrices
  /\ cycles = SetToBag({EnterCycle(goldPrice)})
  /\ orphans = 0
  /\ initialResolved = (goldPrice # UnsetPrice)
  /\ timerOn = initialResolved
  /\ routeOn = initialResolved
  /\ listening = initialResolved
  /\ lastReq = <<>>
  /\ request = NoQuery
  /\ response = [status |-> 0, body |-> <<>>]
  /\ catalog = ServerCatalog
  /\ everScraped = initialResolved
  /\ unhandled = "none"
  /\ frontend = NoPage

\* ----------------------------------------------------------------- actions

\* The call r goes on as r2.
Continue(r, r2) == cycles' = (cycles (-) SetToBag({r})) (+) SetToBag({r2})

\* fetchGoldPriceWithRetry returns for the call r, whose locals are now
\* `now`: its promise resolves, and with it the promise startServer awaits
\* when the call is the initial one.  Browsers it leaves open stay open.
Return(r, now) ==
  /\ cycles' = cycles (-) SetToBag({r})
  /\ orphans' = orphans + Cardinality(now.open)
  /\ initialResolved' = TRUE

\* Mutant of IsLastAttempt: the fallback branch taken at every failure.
IsAnyAttempt(a) == TRUE

\* `attempt === retries` (line 75).
IsLastAttempt(a) == a = Retries

\* Mutant of Fallback: the default assigned whatever goldPrice holds.
FallbackAlways(g) == DefaultPrice

\* `if (!goldPrice) goldPrice = 92.67` (lines 76-78): the price after the
\* fallback branch, given the price g before it.  0 is the only falsy
\* number goldPrice can hold (NaN is never assigned, line 67).
Fallback(g) == IF g = UnsetPrice THEN DefaultPrice ELSE g

\* Mutant of LoopContinues: the loop condition written `attempt < retries`.
LoopContinuesShort(a) == a + 1 < Retries

\* `for (...; attempt <= retries; attempt++)` after an attempt that did not
\* return: TRUE when the loop runs another attempt.
LoopContinues(a) == a + 1 <= Retries

\* Mutant of AttemptAfter: the loop without its `attempt++`.
AttemptRepeated(a) == a

\* `attempt++` (line 18).
AttemptAfter(a) == a + 1

\* The end of the finally block of an attempt of r that threw: the loop
\* either starts the next attempt (chromium.launch is called and awaited)
\* or ends, and the function returns.
NextAttempt(r, now) ==
  IF LoopContinues(now.attempt)
  THEN /\ Continue(r, [now EXCEPT !.attempt = AttemptAfter(now.attempt),
                                  !.pc = "launch"])
       /\ UNCHANGED <<orphans, initialResolved>>
  ELSE Return(r, now)

\* Mutant of FinallyCloses: the close is left out of the error path.
FinallyClosesNothing(b) == FALSE

\* `if (browser)` (line 84): TRUE when the finally block awaits a close.
FinallyCloses(b) == b # NoBrowser

\* The catch block (lines 73-82) followed by the finally block up to its
\* await (lines 83-84), for an attempt of r that threw.  `browser` may still
\* hold the browser of an earlier attempt when this attempt's launch threw.
Catch(r) ==
  /\ goldPrice' = IF IsLastAttempt(r.attempt) THEN Fallback(goldPrice) ELSE goldPrice
  /\ LET now == [r EXCEPT !.fallbackAt = IF IsLastAttempt(r.attempt)
                                          THEN r.attempt ELSE r.fallbackAt]
     IN  IF FinallyCloses(r.browser)
         THEN /\ Continue(r, [now EXCEPT !.pc = "close"])
              /\ UNCHANGED <<orphans, initialResolved>>
         ELSE NextAttempt(r, now)
  /\ UNCHANGED <<timerOn, routeOn, listening, answer, everScraped, recording, unhandled, frontend>>

\* chromium.launch resolves (line 20): `browser` is assigned the new browser.
LaunchOk(r) ==
  /\ r.pc = "launch"
  /\ Continue(r, [r EXCEPT !.pc = "page", !.browser = r.attempt,
                           !.open = r.open \cup {r.attempt}])
  /\ UNCHANGED <<goldPrice, orphans, server, answer, everScraped, recording, scrape, unhandled, frontend>>

\* chromium.launch rejects: `browser` keeps its earlier value.
LaunchFails(r) ==
  /\ r.pc = "launch"
  /\ Catch(r)
  /\ UNCHANGED scrape

\* newContext, newPage, goto (30 s) or waitForSelector (15 s) rejects (a
\* navigation or selector timeout, a closed page).
NavigateFails(r) ==
  /\ r.pc = "page"
  /\ Catch(r)
  /\ UNCHANGED scrape

\* They all resolve, the page's li elements are read and a price is parsed
\* (lines 35-69): goldPrice is assigned (line 70), the function returns
\* (line 72) and the finally block awaits browser.close.
ExtractOk(r, page) ==
  /\ r.pc = "page"
  /\ Scraped[page].ok
  /\ goldPrice' = Scraped[page].price
  /\ everScraped' = TRUE
  /\ Continue(r, [r EXCEPT !.pc = "close", !.returning = TRUE,
                           !.committed = Recorded(Scraped[page].price)])
  /\ scrape' = Scraping(r.attempt, page)
  /\ UNCHANGED <<orphans, server, answer, recording, unhandled, frontend>>

\* They all resolve and the extraction throws (no target li, no price
\* element, NaN).
ExtractFails(r, page) ==
  /\ r.pc = "page"
  /\ ~Scraped[page].ok
  /\ Catch(r)
  /\ scrape' = Scraping(r.attempt, page)

\* Mutant of AfterClose: the close leaves the browser process running.
AfterCloseLeak(open, b) == open

\* The open browsers of a call once `browser.close()` has resolved for the
\* browser b, given the browsers open before.
AfterClose(open, b) == open \ {b}

\* browser.close resolves (line 84): the browser `browser` refers to is
\* closed (closing a closed browser changes nothing); then the pending
\* return completes, or the loop goes on.
CloseDone(r) ==
  /\ r.pc = "close"
  /\ LET closed == [r EXCEPT !.open = AfterClose(r.open, r.browser)]
     IN  IF r.returning
         THEN Return(r, closed)
         ELSE NextAttempt(r, closed)
  /\ UNCHANGED <<goldPrice, timerOn, routeOn, listening, answer, everScraped,
                 recording, scrape, unhandled, frontend>>

\* browser.close rejects (line 84).  The await is in the finally block,
\* outside any try: the rejection leaves the loop and rejects the promise of
\* fetchGoldPriceWithRetry, and with it the promise of updateGoldPrice
\* (line 90).  No caller handles it.  For the initial call, `await
\* updateGoldPrice()` throws in startServer (line 95), whose promise is
\* rejected unhandled (line 149): nothing after line 95 runs, no timer and no
\* listener keep the process alive, and it exits.  For a call made by the
\* timer the unhandled rejection ends the process or is only warned about,
\* as the Node version and its --unhandled-rejections mode decide.  The
\* browser whose close rejected is counted as still open.
CloseFails(r, outcome) ==
  /\ r.pc = "close"
  /\ orphans + Cardinality(r.open) <= MaxOrphans
  /\ outcome \in (IF initialResolved THEN {"warned", "exited"} ELSE {"exited"})
  /\ unhandled' = outcome
  /\ cycles' = cycles (-) SetToBag({r})
  /\ orphans' = orphans + Cardinality(r.open)
  /\ UNCHANGED <<goldPrice, server, answer, everScraped, recording, scrape, frontend>>

\* Mutant of InitialCycleAwaited: updateGoldPrice() called without await.
InitialCycleNotAwaited == TRUE

\* `await updateGoldPrice()` (line 95): TRUE when startServer may go on.
InitialCycleAwaited == initialResolved

\* startServer resumes after its await and runs to its end (lines 97-146):
\* the timer is set, the routes are registered, the server listens.  It
\* does so once (`~listening`: app.listen is its last statement).
StartServerResume ==
  /\ InitialCycleAwaited
  /\ ~listening
  /\ timerOn' = TRUE
  /\ routeOn' = TRUE
  /\ listening' = TRUE
  /\ UNCHANGED <<goldPrice, cycles, orphans, initialResolved, answer,
                 everScraped, recording, scrape, unhandled, frontend>>

\* Mutant of StillArmed: the timer set with setTimeout, which fires once.
ArmedOnce(armed) == FALSE

\* The timer after it has fired: setInterval (line 97) stays armed, and
\* nothing calls clearInterval.
StillArmed(armed) == armed

\* The 60 s interval fires: updateGoldPrice is called whatever the earlier
\* calls are doing (setInterval holds no reference to them).  Time is not
\* modelled: a call can outlast the period (each of its three attempts may
\* wait 30 s for the navigation and 15 s for the selector, after its
\* launch), so a tick may come at any position of the calls in flight.  The
\* tick is not modelled when MaxInFlight calls are in flight.
Tick(watch) ==
  /\ timerOn
  /\ BagCardinality(cycles) < MaxInFlight
  /\ cycles' = cycles (+) SetToBag({[EnterCycle(goldPrice) EXCEPT !.watched = watch]})
  /\ timerOn' = StillArmed(timerOn)
  /\ UNCHANGED <<goldPrice, orphans, initialResolved, routeOn, listening, answer,
                 everScraped, recording, scrape, unhandled, frontend>>

TimerTick == Tick(FALSE)

\* Mutant of RequestReady: the handler waits for the refresh in flight.
RequestWaitsForCycle == listening /\ routeOn /\ cycles = EmptyBag

\* A GET /api/products can be handled: the server listens and the route is
\* registered.  The handler awaits nothing.
RequestReady == listening /\ routeOn

\* GET /api/products?q is handled (lines 100-137): the handler is
\* synchronous; it reads goldPrice for each product, filters, orders and
\* sends the array.  It writes nothing but its response.
HandleRequest(q) ==
  /\ RequestReady
  /\ lastReq' = <<goldPrice>>
  /\ request' = q
  /\ \E body \in Answered[catalog][goldPrice][q] :
       /\ response' = [status |-> StatusOK, body |-> body]
       /\ catalog' = CatalogAfter(catalog, body)
  /\ UNCHANGED <<goldPrice, cycles, orphans, server, everScraped, recording, scrape,
                 unhandled, frontend>>

Next ==
  \/ \E r \in InFlight : LaunchOk(r)
  \/ \E r \in InFlight : LaunchFails(r)
  \/ \E r \in InFlight : NavigateFails(r)
  \/ \E r \in InFlight, page \in Pages : ExtractOk(r, page)
  \/ \E r \in InFlight, page \in Pages : ExtractFails(r, page)
  \/ \E r \in InFlight : CloseDone(r)
  \/ StartServerResume
  \/ TimerTick
  \/ \E q \in ServerQueries : HandleRequest(q)

Spec == Init /\ [][Next]_vars

\* A step of the call r: one of its awaits settles.
CycleStep(r) ==
  \/ LaunchOk(r)
  \/ LaunchFails(r)
  \/ NavigateFails(r)
  \/ \E page \in Pages : ExtractOk(r, page)
  \/ \E page \in Pages : ExtractFails(r, page)
  \/ CloseDone(r)

Watched == {r \in InFlight : r.watched}

\* The interval fires and the call it makes is the one followed to its end;
\* one call is followed at a time.
TimerTickWatched == Watched = {} /\ Tick(TRUE)

\* The steps of startServer, of the timer and of the calls.  The request
\* handler is left out: it awaits nothing and writes only its response.
NextLive ==
  \/ \E r \in InFlight : CycleStep(r)
  \/ StartServerResume
  \/ TimerTick
  \/ TimerTickWatched

\* The program with its scheduling: startServer resumes once the promise it
\* awaits has resolved; the interval keeps firing (line 97); every await of
\* a call settles, since chromium.launch and page.goto give up after 30 s,
\* waitForSelector after 15 s, and the other awaits answer from the local
\* browser process.  The initial call is followed first.
InitLive ==
  /\ recording = FALSE
  /\ scrape = NotScraping
  /\ cycles = SetToBag({[EnterCycle(UnsetPrice) EXCEPT !.watched = TRUE]})
  /\ goldPrice = UnsetPrice
  /\ orphans = 0
  /\ initialResolved = FALSE
  /\ timerOn = FALSE
  /\ routeOn = FALSE
  /\ listening = FALSE
  /\ lastReq = <<>>
  /\ request = NoQuery
  /\ response = [status |-> 0, body |-> <<>>]
  /\ catalog = ServerCatalog
  /\ everScraped = FALSE
  /\ unhandled = "none"
  /\ frontend = NoPage

SpecLive ==
  /\ InitLive
  /\ [][NextLive]_vars
  /\ WF_vars(StartServerResume)
  /\ WF_vars(TimerTick \/ TimerTickWatched)
  /\ WF_vars(\E r \in Watched : CycleStep(r))
  /\ WF_vars(\E r \in InFlight \ Watched : CycleStep(r))

\* The program with the newest call marked: the call a tick makes is the
\* one followed, and the calls already in flight, which were all started
\* before it, are followed no longer.
Unwatch(r) == [r EXCEPT !.watched = FALSE]

TimerTickNewest ==
  /\ timerOn
  /\ BagCardinality(cycles) < MaxInFlight
  /\ cycles' = BagOfAll(Unwatch, cycles)
                 (+) SetToBag({[EnterCycle(goldPrice) EXCEPT !.watched = TRUE]})
  /\ timerOn' = StillArmed(timerOn)
  /\ UNCHANGED <<goldPrice, orphans, initialResolved, routeOn, listening, answer,
                 everScraped, recording, scrape, unhandled, frontend>>

NextOrder ==
  \/ \E r \in InFlight : CycleStep(r)
  \/ StartServerResume
  \/ TimerTickNewest
  \/ \E q \in ServerQueries : HandleRequest(q)

SpecOrder == InitLive /\ [][NextOrder]_vars

\* ------------------------------------------------- the single-shot variant
\* src/unnamed/part_007: updateGoldPrice makes one attempt, and the module
\* calls it without awaiting it before it sets the timer, registers the
\* route and listens (lines 106-152).

\* The catch block (lines 90-97) followed by the finally block up to its
\* await (lines 98-101): the fallback is applied at every failure; the
\* function ends once the browser, if one was launched, is closed
\* (`returning`).
SingleCatch(r) ==
  /\ goldPrice' = Fallback(goldPrice)
  /\ LET now == [r EXCEPT !.fallbackAt = r.attempt, !.returning = TRUE]
     IN  IF FinallyCloses(r.browser)
         THEN /\ Continue(r, [now EXCEPT !.pc = "close"])
              /\ UNCHANGED <<orphans, initialResolved>>
         ELSE Return(r, now)
  /\ UNCHANGED <<timerOn, routeOn, listening, answer, everScraped, recording,
                 scrape, unhandled, frontend>>

\* chromium.launch rejects (line 36).
SingleLaunchFails(r) ==
  /\ r.pc = "launch"
  /\ SingleCatch(r)

\* newContext, newPage, goto (60 s) or waitForSelector (10 s) rejects
\* (lines 40-49).
SingleNavigateFails(r) ==
  /\ r.pc = "page"
  /\ SingleCatch(r)

\* The extraction throws (lines 70-87).
SingleExtractFails(r, page) ==
  /\ r.pc = "page"
  /\ ~Scraped[page].ok
  /\ SingleCatch(r)

\* The module has been loaded: the first call of updateGoldPrice (line 106)
\* is suspended at chromium.launch, the timer is set (line 107), the route
\* is registered (line 110) and the server listens (line 150).  The first
\* call is the one followed.
InitSingle ==
  /\ recording = FALSE
  /\ scrape = NotScraping
  /\ goldPrice = UnsetPrice
  /\ cycles = SetToBag({[EnterCycle(UnsetPrice) EXCEPT !.watched = TRUE]})
  /\ orphans = 0
  /\ initialResolved = FALSE
  /\ timerOn = TRUE
  /\ routeOn = TRUE
  /\ listening = TRUE
  /\ lastReq = <<>>
  /\ request = NoQuery
  /\ response = [status |-> 0, body |-> <<>>]
  /\ catalog = ServerCatalog
  /\ everScraped = FALSE
  /\ unhandled = "none"
  /\ frontend = NoPage

NextSingle ==
  \/ \E r \in InFlight : LaunchOk(r)
  \/ \E r \in InFlight : SingleLaunchFails(r)
  \/ \E r \in InFlight : SingleNavigateFails(r)
  \/ \E r \in InFlight, page \in Pages : ExtractOk(r, page)
  \/ \E r \in InFlight, page \in Pages : SingleExtractFails(r, page)
  \/ \E r \in InFlight : CloseDone(r)
  \/ TimerTick
  \/ \E q \in ServerQueries : HandleRequest(q)

SpecSingle == InitSingle /\ [][NextSingle]_vars

\* One call of fetchGoldPriceWithRetry over the pages of ExtractPages.
NextExtract ==
  \/ \E r \in InFlight : LaunchOk(r)
  \/ \E r \in InFlight : LaunchFails(r)
  \/ \E r \in InFlight : NavigateFails(r)
  \/ \E r \in InFlight, page \in ExtractPages : ExtractOk(r, page)
  \/ \E r \in InFlight, page \in ExtractPages : ExtractFails(r, page)
  \/ \E r \in InFlight : CloseDone(r)

SpecExtract == InitExtract /\ [][NextExtract]_vars

\* The same program, with the calls' startGold and committed recorded.
SpecHistory == InitHistory /\ [][Next]_vars

\* The program with a browser whose close can reject.  A process that has
\* exited takes no step.
NextFaulty ==
  \/ unhandled # "exited" /\ Next
  \/ unhandled # "exited" /\ \E r \in InFlight, outcome \in {"warned", "exited"} :
                               CloseFails(r, outcome)

SpecFaulty == Init /\ [][NextFaulty]_vars

\* The request handler on its own, over every query of Queries.
NextQuery == \E q \in Queries : HandleRequest(q)

SpecQuery == InitQuery /\ [][NextQuery]_vars

\* ------------------------------------------------------- frontend actions

MaxFetches == 3

\* The rest of the program does not move while the page does.
PageOnly ==
  UNCHANGED <<goldPrice, cycles, orphans, server, answer, everScraped, recording,
              scrape, unhandled>>

\* The filter button is clicked (lines 126-140).
FilterClick(form) ==
  /\ frontend.on
  /\ frontend.issued < MaxFetches
  /\ frontend' = Issue(frontend, FiltersOf(form))
  /\ PageOnly

\* `await fetch(...)` resolves (line 110): the service has answered with the
\* array its handler computes for the query, or with a body that is not JSON.
FetchResolves(c) ==
  /\ c.pc = "fetch"
  /\ \E answered \in {Json(body) : body \in Answered[catalog][goldPrice][c.query]}
                      \cup {NotJson} :
       frontend' = [frontend EXCEPT
                      !.fetches = (@ \ {c}) \cup {[c EXCEPT !.pc = "json", !.response = answered]}]
  /\ PageOnly

\* `await fetch(...)` rejects (a network error): catch, then finally (lines
\* 115-119).
FetchRejects(c) ==
  /\ c.pc = "fetch"
  /\ frontend' = Finally(frontend, c, Failed)
  /\ PageOnly

\* `await response.json()` resolves (line 113): renderProducts(products) (line
\* 114), then finally.
JsonResolves(c) ==
  /\ c.pc = "json"
  /\ c.response.json
  /\ frontend' = Finally([frontend EXCEPT !.shown = TRUE, !.rendered = c.response.products],
                         c, Rendered(c.response.products))
  /\ PageOnly

\* `await response.json()` rejects: catch, then finally.
JsonRejects(c) ==
  /\ c.pc = "json"
  /\ ~c.response.json
  /\ frontend' = Finally(frontend, c, Failed)
  /\ PageOnly

\* The page has just loaded (lines 9-14) and made its initial call of
\* fetchProducts (line 123); the service runs with a cached price of 92.67
\* or of 100.00 USD.
InitFrontend ==
  /\ recording = FALSE
  /\ scrape = NotScraping
  /\ goldPrice \in {DefaultPrice, 100000}
  /\ cycles = EmptyBag
  /\ orphans = 0
  /\ initialResolved = TRUE
  /\ timerOn = TRUE
  /\ routeOn = TRUE
  /\ listening = TRUE
  /\ lastReq = <<>>
  /\ request = NoQuery
  /\ response = [status |-> 0, body |-> <<>>]
  /\ catalog = ServerCatalog
  /\ everScraped = TRUE
  /\ unhandled = "none"
  /\ frontend = Issue(NoPage, NoFilters)

NextFrontend ==
  \/ \E form \in Forms : FilterClick(form)
  \/ \E c \in frontend.fetches : FetchResolves(c)
  \/ \E c \in frontend.fetches : FetchRejects(c)
  \/ \E c \in frontend.fetches : JsonResolves(c)
  \/ \E c \in frontend.fetches : JsonRejects(c)

SpecFrontend == InitFrontend /\ [][NextFrontend]_vars

\* ------------------------------------------------------------------ claims

\* The step is the return of the call r (r as it was before the step).
Returns(r) ==
  /\ BagCardinality(cycles') < BagCardinality(cycles)
  /\ CopiesIn(r, cycles') < CopiesIn(r, cycles)

\* The step is the return of r after its last attempt failed.
ReturnsExhausted(r) == Returns(r) /\ ~r.returning

\* The step is the return of r after an attempt succeeded.
ReturnsSuccess(r) == Returns(r) /\ r.returning

\* The step is an attempt of r failing (its catch block runs).
AttemptFails(r) ==
  \/ LaunchFails(r)
  \/ NavigateFails(r)
  \/ \E page \in Pages : ExtractFails(r, page)

\* C1: a cycle that starts while goldPrice is 0 and whose three attempts all
\* fail ends with goldPrice equal to the default 92.67.  (Reads startGold:
\* checked under SpecHistory.)
C1_UnsetExhaustedEndsAtDefault ==
  [][\A r \in InFlight :
       (recording /\ ReturnsExhausted(r) /\ r.startGold = UnsetPrice)
         => goldPrice' = DefaultPrice]_vars

\* C2: a cycle that starts while goldPrice is set and whose attempts all fail
\* ends with goldPrice equal to the value it had when the cycle started.
\* (Reads startGold: checked under SpecHistory.)
C2_SetExhaustedKeepsStartValue ==
  [][\A r \in InFlight :
       (recording /\ ReturnsExhausted(r) /\ r.startGold # UnsetPrice)
         => goldPrice' = r.startGold]_vars

\* C3: once goldPrice is set (not 0) no step brings it back to the unset
\* state (0).
C3_NeverUnsetAgain ==
  [][goldPrice # UnsetPrice => goldPrice' # UnsetPrice]_vars

\* C4: once some attempt has committed a scraped price, no failed attempt
\* sets goldPrice to the default.
C4_NoDefaultAfterScrape ==
  [][\A r \in InFlight :
       (everScraped /\ AttemptFails(r) /\ goldPrice' = DefaultPrice)
         => goldPrice = DefaultPrice]_vars

\* C5: a cycle whose attempt succeeds makes no further attempt (it only
\* awaits the close of its browser), and when it ends goldPrice is exactly
\* the price that attempt parsed.  (Reads committed: checked under
\* SpecHistory.)
C5_SuccessEndsAtParsedValue ==
  [][\A r \in InFlight :
       /\ r.returning => r.pc = "close"
       /\ (recording /\ ReturnsSuccess(r)) => goldPrice' = r.committed]_vars

C7_NoConcurrentCycles == BagCardinality(cycles) <= 1

\* C8: the timer is started, the route registered and the server made to
\* listen only after the initial cycle has returned: in the step that does
\* any of them no cycle is in flight and the awaited promise has resolved.
C8_InitialCycleFirst ==
  [][(timerOn' # timerOn \/ routeOn' # routeOn \/ listening' # listening)
       => (initialResolved /\ cycles = EmptyBag)]_vars

\* C8 witness: startServer has resumed after the initial cycle.
C8_Witness == timerOn /\ routeOn /\ listening /\ initialResolved

\* C9: no request is handled while goldPrice is unset: the price a handled
\* request read is never 0.
C9_NoRequestSeesUnset == lastReq # <<>> => lastReq[1] # UnsetPrice

C11_ClosedBeforeNextLaunch ==
  \A r \in InFlight : \A k \in r.open : ~(k < r.attempt)

\* C11 witness: attempt 2 holds its own browser, attempt 1 having launched
\* one and failed.
C11_Witness ==
  \E r \in InFlight : r.pc = "page" /\ r.attempt = 2 /\ r.open = {2}

\* C12: no attempt uses or closes a browser launched by another attempt: the
\* browser an attempt works on, and the one its finally block closes, is the
\* one it launched itself.
C12_AttemptsIndependent ==
  \A r \in InFlight : r.pc \in {"page", "close"} => r.browser = r.attempt

\* C13: every failure inside a cycle, the release of the browser included,
\* is absorbed: no call of fetchGoldPriceWithRetry rejects, so no rejection
\* is left unhandled and the process goes on.  (Checked under SpecFaulty,
\* where browser.close can reject.)
C13_FailuresAbsorbed == unhandled = "none"

\* The prices a successful attempt can parse.
ParsedPrices == {Scraped[page].price : page \in {pg \in Pages : Scraped[pg].ok}}

\* The values the call r has to do with: the price committed when it
\* started and the price it has committed itself (scraped, or the default).
\* (Reads startGold and committed: recorded under SpecHistory.)
CycleValues(r) ==
  {r.startGold} \cup (IF r.returning THEN {r.committed} ELSE {})
                \cup (IF r.fallbackAt # 0 THEN {DefaultPrice} ELSE {})

\* C14: a request handled while a cycle is in flight reads the value
\* committed before that cycle or the value that cycle commits, and no
\* other: what it reads is one whole value of goldPrice, the default 92.67
\* or a price parsed by a successful attempt.  (Checked under SpecHistory.)
C14_RequestReadsCommittedValue ==
  [][(recording /\ lastReq' # lastReq) =>
       /\ lastReq' = <<goldPrice>>
       /\ \/ goldPrice = DefaultPrice
          \/ everScraped /\ goldPrice \in ParsedPrices
       /\ \A r \in InFlight : goldPrice \in CycleValues(r)]_vars

\* C15: once the server listens, a request can be handled in every state of
\* the refresh cycles (none in flight, an attempt in flight, between two
\* attempts), in one step of its own.
C15_RequestAlwaysEnabled ==
  listening => ENABLED (\E q \in ServerQueries : HandleRequest(q))

\* C15 witness: the server has answered and a cycle is between two attempts,
\* closing the browser of a failed one.
C15_Witness ==
  /\ listening /\ response.status = StatusOK
  /\ \E r \in InFlight : r.pc = "close" /\ ~r.returning

\* The elements of a sequence.
Range(s) == {s[i] : i \in 1 .. Len(s)}

Bounds == {"minPrice", "maxPrice", "minRating", "maxRating"}

\* The parameter is present with a well-formed number.
WellFormed(v) == v # Undefined /\ v # <<>> /\ ~IsNaN(ParseFloat(v))

\* The parameter is present and is not a number.
Malformed(v) == v # Undefined /\ v # <<>> /\ IsNaN(ParseFloat(v))

\* The entry e is within the bound b of the query q, as an inclusive
\* comparison of numbers.
Within(e, q, b) ==
  LET n == ParseFloat(q[b])[1] IN
  CASE b = "minPrice"  -> e.price * 1000 >= n
    [] b = "maxPrice"  -> e.price * 1000 <= n
    [] b = "minRating" -> e.rating >= n
    [] b = "maxRating" -> e.rating <= n

\* The entry e satisfies every bound of q that is present with a number.
Satisfies(e, q) == \A b \in Bounds : WellFormed(q[b]) => Within(e, q, b)

\* The priced entries of the last request handled.
PricedNow == Range(PricedAll(catalog, lastReq[1]))

\* C16: every request is answered with status 200 and an array of priced
\* entries of the catalog, whatever the cycles did or are doing; when no
\* entry satisfies the filters the array is empty.
C16_AlwaysAnArray ==
  lastReq # <<>> =>
    /\ response.status = StatusOK
    /\ Range(response.body) \subseteq PricedNow
    /\ (\A e \in PricedNow : ~Satisfies(e, request)) => response.body = <<>>

\* C16 witness: a request whose bounds no entry satisfies has been answered
\* with the empty array after the fallback wrote the default, a cycle being
\* in flight.
C16_Witness ==
  /\ lastReq = <<DefaultPrice>> /\ ~everScraped /\ cycles # EmptyBag
  /\ WellFormed(request.minPrice)
  /\ \A e \in PricedNow : ~Satisfies(e, request)
  /\ response = [status |-> StatusOK, body |-> <<>>]

\* C17: the price of every entry of a response is (p + 1) * w * g rounded to
\* the nearest integer, a tie going up, and is not negative (w > 0, p in
\* [0, 1], g >= 0): price - 1/2 <= (p + 1) * w * g < price + 1/2.
C17_PriceRounded ==
  lastReq # <<>> =>
    \A e \in Range(response.body) :
      LET d == ComputedPrice(e, lastReq[1]) - e.price * PriceScale IN
      /\ e.price \in Nat
      /\ 0 - (PriceScale \div 2) <= d
      /\ d < PriceScale \div 2

\* C17 witness: an entry whose exact price is 1.5 (1.0 g at 0.50, 1.00 USD)
\* is answered with price 2.
C17_Witness ==
  /\ lastReq = <<1000>>
  /\ \E e \in Range(response.body) :
       e.weight = 10 /\ e.popularityScore = 50 /\ e.price = 2

\* C18: every entry of every response has a positive integer price and a
\* rating in [0, 5] that is popularityScore * 5 rounded to one decimal.
C18_PositivePriceAndRating ==
  lastReq # <<>> =>
    \A e \in Range(response.body) :
      /\ e.price \in Nat /\ e.price > 0
      /\ e.rating \in 0 .. 5000
      /\ e.rating % 100 = 0
      /\ LET d == e.popularityScore * 50 - e.rating IN 0 - 50 <= d /\ d < 50

\* The query q without its bound b.
Relaxed(q, b) == [q EXCEPT ![b] = Undefined]

\* Every bound of q is absent or a well-formed number.
AllWellFormed(q) == \A b \in Bounds : q[b] = Undefined \/ WellFormed(q[b])

\* C19: with well-formed bounds, the response holds exactly the priced
\* entries that satisfy every present bound, each once; and an entry that
\* only the bound b excludes is in the response to the query without b.
C19_ConjunctiveInclusiveFilter ==
  (lastReq # <<>> /\ AllWellFormed(request)) =>
    /\ Range(response.body) = {e \in PricedNow : Satisfies(e, request)}
    /\ Len(response.body) = Cardinality(Range(response.body))
    /\ \A b \in Bounds, e \in PricedNow :
         (/\ WellFormed(request[b])
          /\ ~Within(e, request, b)
          /\ Satisfies(e, Relaxed(request, b)))
           => \A body \in Answered[catalog][lastReq[1]][Relaxed(request, b)] :
                e \in Range(body)

\* C19 witness: minPrice=300 with a price of exactly 300: the entry is in
\* the response.
C19_Witness ==
  /\ lastReq # <<>> /\ AllWellFormed(request)
  /\ request.minPrice = three
  /\ \E e \in Range(response.body) : e.price = 300

\* The query q with every malformed bound left out.
WithoutMalformed(q) ==
  [k \in DOMAIN q |-> IF k \in Bounds /\ Malformed(q[k]) THEN Undefined ELSE q[k]]

\* C20: a bound whose value is not a number is treated as absent: the
\* response is one the same request without that parameter gets.
C20_MalformedIsAbsent ==
  lastReq # <<>> =>
    response.body \in Answered[catalog][lastReq[1]][WithoutMalformed(request)]

\* The priced entries the filters of the last request leave, in catalog
\* order.
FilteredNow == Filtered(PricedAll(catalog, lastReq[1]), request)

\* C21: with sortBy=price the prices of the response do not decrease, with
\* sortBy=rating its ratings do not increase, and the response is a
\* rearrangement of the filtered entries.
C21_SortedByPriceOrRating ==
  (lastReq # <<>> /\ request.sortBy \in {byPrice, byRating}) =>
    /\ Range(response.body) = Range(FilteredNow)
    /\ Len(response.body) = Len(FilteredNow)
    /\ \A i, j \in 1 .. Len(response.body) :
         i < j => IF request.sortBy = byPrice
                  THEN response.body[i].price <= response.body[j].price
                  ELSE response.body[i].rating >= response.body[j].rating

\* C21 witness: a response ordered by rating whose entries are not in
\* catalog order.
C21_Witness ==
  /\ lastReq # <<>> /\ request.sortBy = byRating
  /\ \E i, j \in 1 .. Len(response.body) :
       i < j /\ response.body[i].id > response.body[j].id
             /\ response.body[i].rating > response.body[j].rating

\* C22: with sortBy=ratio the response is in non-increasing order of
\* rating / price, entries of price 0 included, by one defined rule: the
\* comparison of no two entries of the response is NaN, and an entry never
\* comes before one of greater ratio (a positive rating over price 0 being
\* the greatest).
C22_RatioOrderDefined ==
  (lastReq # <<>> /\ request.sortBy = byRatio) =>
    \A i, j \in 1 .. Len(response.body) :
      i < j => /\ ~IsNaN(RatioDifference(response.body[i], response.body[j]))
               /\ RatioDifference(response.body[i], response.body[j])[1] <= 0

\* The position of the product of an entry in the catalog.
CatalogPosition(e) ==
  CHOOSE i \in 1 .. Len(catalog) : catalog[i].id = e.id

\* C23: when sortBy is absent or is not price, rating or ratio, the response
\* is the filtered entries in catalog order, with status 200.
C23_UnsortedKeepsCatalogOrder ==
  (lastReq # <<>> /\ request.sortBy \notin {byPrice, byRating, byRatio}) =>
    /\ response.status = StatusOK
    /\ Range(response.body) = Range(FilteredNow)
    /\ \A i, j \in 1 .. Len(response.body) :
         i < j => CatalogPosition(response.body[i]) < CatalogPosition(response.body[j])

\* C23 witness: sortBy=name, answered with entries whose prices are not in
\* increasing order.
C23_Witness ==
  /\ lastReq # <<>> /\ request.sortBy = <<"n", "a", "m", "e">>
  /\ \E i, j \in 1 .. Len(response.body) :
       i < j /\ response.body[i].price > response.body[j].price

\* C25: a step that answers a request changes neither goldPrice nor the
\* catalog, whose entries and order never change; goldPrice is changed only
\* by a step of a cycle in flight, which answers nothing.
C25_RequestWritesNothing ==
  [][/\ catalog' = catalog
     /\ (lastReq' # lastReq \/ request' # request \/ response' # response)
          => goldPrice' = goldPrice
     /\ goldPrice' # goldPrice
          => \E r \in InFlight :
               \/ AttemptFails(r)
               \/ \E page \in Pages : ExtractOk(r, page)]_vars

\* C25 witness: a response ordered by ratio, its entries not in catalog
\* order, the catalog as loaded.
C25_Witness ==
  /\ lastReq # <<>> /\ request.sortBy = byRatio /\ catalog = ServerCatalog
  /\ \E i, j \in 1 .. Len(response.body) :
       i < j /\ response.body[i].id > response.body[j].id

\* A li whose label exists, can be read and holds "gram" in any letter case.
HasGramLabel(li) ==
  /\ li.hasLabel /\ ~li.labelThrows
  /\ \E i \in 1 .. (Len(li.label) - 3) :
       ToLowerCase(SubSeq(li.label, i, i + 3)) = gram

\* k is the first li of lis, in document order, with such a label.
FirstCandidate(lis, k) ==
  /\ k \in 1 .. Len(lis)
  /\ HasGramLabel(lis[k])
  /\ \A j \in 1 .. (k - 1) : ~HasGramLabel(lis[j])

\* C26: the extraction reads its price from the first li, in document
\* order, whose label exists and contains "gram" in lower case; li without
\* label or whose lookup throws are passed over, and a later li with such a
\* label is never taken: the price extracted and assigned is the one of the
\* first candidate, and when the first candidate yields none the extraction
\* fails.
C26_FirstMatchSelected ==
  scrape.attempt # 0 =>
    \A k \in 1 .. Len(scrape.lis) :
      FirstCandidate(scrape.lis, k) =>
        IF scrape.lis[k].hasValue /\ ~IsNaN(ParsePrice(scrape.lis[k].value))
        THEN /\ scrape.result.ok
             /\ scrape.result.price = ParsePrice(scrape.lis[k].value)[1]
             /\ goldPrice = scrape.result.price
        ELSE ~scrape.result.ok

\* C26 witness: a page whose second li is passed over or is a candidate with
\* another price than the first candidate, the price of the first assigned.
C26_Witness ==
  /\ scrape.attempt # 0 /\ scrape.result.ok /\ goldPrice = scrape.result.price
  /\ \E k, l \in 1 .. Len(scrape.lis) :
       /\ FirstCandidate(scrape.lis, k) /\ k < l
       /\ HasGramLabel(scrape.lis[l]) /\ scrape.lis[l].hasValue
       /\ ParsePrice(scrape.lis[l].value) # ParsePrice(scrape.lis[k].value)

\* Nothing can be extracted from lis: no li has a label containing "gram",
\* or the first that has one lacks the price element, or holds a text that
\* does not parse.
Unextractable(lis) ==
  \/ \A k \in 1 .. Len(lis) : ~HasGramLabel(lis[k])
  \/ \E k \in 1 .. Len(lis) :
       /\ FirstCandidate(lis, k)
       /\ ~lis[k].hasValue \/ IsNaN(ParsePrice(lis[k].value))

\* C27: an attempt whose wait for the li elements fails, or that reads a
\* page from which nothing can be extracted, fails: it does not return, it
\* assigns no scraped price, and goldPrice keeps its value unless the
\* attempt is the last and goldPrice is unset, when it takes the default.
C27_UnextractableAttemptFails ==
  [][\A r \in InFlight :
       (\/ NavigateFails(r)
        \/ /\ scrape'.lis \in ExtractPages
           /\ Unextractable(scrape'.lis)
           /\ ExtractOk(r, scrape'.lis) \/ ExtractFails(r, scrape'.lis))
       => /\ \A r2 \in BagToSet(cycles') : ~r2.returning
          /\ everScraped' = everScraped
          /\ \/ goldPrice' = goldPrice
             \/ /\ goldPrice = UnsetPrice /\ r.attempt = Retries
                /\ goldPrice' = DefaultPrice]_vars

\* C27 witness: an attempt has read a page whose first candidate has no
\* price element, and the price cached before is still there.
C27_Witness ==
  /\ scrape.attempt # 0 /\ ~scrape.result.ok
  /\ \E k \in 1 .. Len(scrape.lis) :
       FirstCandidate(scrape.lis, k) /\ ~scrape.lis[k].hasValue
  /\ goldPrice = 95500

\* The text of a price element as the claim normalises it: surrounding
\* white space and a leading currency symbol removed, the comma made a
\* decimal point.
Normalised(text) ==
  LET t == Trim(text)
      u == IF t # <<>> /\ t[1] = "$" THEN Trim(Tail(t)) ELSE t
  IN  ReplaceFirstComma(u)

\* s is a decimal number: digits, with or without a point followed by
\* digits, and nothing else.
IsDecimal(s) ==
  LET n1 == DigitRun(s, 1)
      n2 == IF n1 < Len(s) /\ s[n1 + 1] = "." THEN DigitRun(s, n1 + 2) ELSE 0
  IN  /\ n1 > 0
      /\ \/ n1 = Len(s)
         \/ n2 > 0 /\ n1 + 1 + n2 = Len(s)

\* C28: the text of the price element is parsed as a decimal number once
\* its surrounding white space and currency symbol are removed and its comma
\* is made a decimal point ("123,45" gives 123.45); a text that is then not
\* a decimal number makes the extraction fail.
C28_NormalisedDecimalParsed ==
  (/\ scrape.attempt # 0 /\ Len(scrape.lis) = 1
   /\ HasGramLabel(scrape.lis[1]) /\ scrape.lis[1].hasValue) =>
    IF IsDecimal(Normalised(scrape.lis[1].value))
    THEN /\ scrape.result.ok
         /\ scrape.result.price = ParseFloat(Normalised(scrape.lis[1].value))[1]
    ELSE ~scrape.result.ok

\* C29: once the initial cycle is over, the interval keeps starting refresh
\* cycles for as long as the process runs, whatever became of the earlier
\* ones: a cycle is started infinitely often.
C29_CyclesKeepStarting == []<><<TimerTick \/ TimerTickWatched>>_vars

\* C29 witness: the initial cycle failed at every attempt, and a cycle the
\* timer started is in flight.
C29_Witness ==
  /\ timerOn /\ ~everScraped /\ goldPrice = DefaultPrice
  /\ cycles # EmptyBag

\* C30: every started cycle comes to its end, its awaits settling, and no
\* browser a cycle launched is left open once the cycle has ended.
C30_CycleCompletesAndCloses ==
  /\ (Watched # {}) ~> (Watched = {})
  /\ [](orphans = 0)

\* C30 witness: the initial cycle, which is followed, has ended by
\* exhaustion with every browser it launched closed, and startServer has
\* not yet resumed.
C30_Witness ==
  /\ initialResolved /\ ~timerOn
  /\ Watched = {} /\ cycles = EmptyBag
  /\ goldPrice = DefaultPrice /\ ~everScraped
  /\ orphans = 0

\* The entries a and b have the same sort key under sortBy = by.  A ratio
\* 0/0 is NaN, which equals nothing; two positive ratings over price 0 are
\* both +Infinity.
SameKey(by, a, b) ==
  IF by = byPrice THEN a.price = b.price
  ELSE IF by = byRating THEN a.rating = b.rating
  ELSE /\ RatioKind(a) # "nan" /\ RatioKind(b) # "nan"
       /\ RatioKind(a) = RatioKind(b)
       /\ a.rating * b.price = b.rating * a.price

PricePs(li) ==
  IF li.hasValue THEN <<PriceP(li.down, li.value)>> \o li.rest ELSE <<>>

\* C32: when the li taken holds a convertPrice <p> with the down class and
\* one without it, the price extracted is the text of the one without it.
C32_DownMarkerExcluded ==
  scrape.attempt # 0 =>
    \A k \in 1 .. Len(scrape.lis) :
      LET ps == PricePs(scrape.lis[k]) IN
      (/\ FirstCandidate(scrape.lis, k)
       /\ \E i \in 1 .. Len(ps) : ps[i].down
       /\ \E i \in 1 .. Len(ps) : ~ps[i].down)
      => \E i \in 1 .. Len(ps) :
           /\ ~ps[i].down /\ \A j \in 1 .. (i - 1) : ps[j].down
           /\ scrape.result.ok
           /\ scrape.result.price = ParsePrice(ps[i].text)[1]

\* A step of the single-shot variant in which an attempt fails.
SingleFails ==
  \E r \in InFlight :
    \/ SingleLaunchFails(r)
    \/ SingleNavigateFails(r)
    \/ \E page \in Pages : SingleExtractFails(r, page)

\* A step that answers a request.
Answering == <<lastReq, request, response>>' # <<lastReq, request, response>>

\* Every entry of the response of the next state has price 0, priced from 0.
AnsweredFromUnset ==
  /\ lastReq' = <<UnsetPrice>>
  /\ \A i \in 1 .. Len(response'.body) : response'.body[i].price = 0

\* C33 (as stated): in the single-shot variant a failed attempt sets
\* goldPrice to the default when it is unset and leaves it otherwise, and a
\* request handled before the first cycle has completed is priced from 0.
C33_SingleShotUnsetUntilFirstCompletes ==
  [][/\ SingleFails =>
          goldPrice' = IF goldPrice = UnsetPrice THEN DefaultPrice ELSE goldPrice
     /\ (Answering /\ Watched # {}) => AnsweredFromUnset]_vars

\* C33 (amended): in the single-shot variant a failed attempt sets goldPrice
\* to the default when it is unset and leaves it otherwise, and a request
\* handled before any cycle has written goldPrice (by its scraped price or
\* by the default) is priced from 0.
C33_SingleShotUnsetUntilFirstWrite ==
  [][/\ SingleFails =>
          goldPrice' = IF goldPrice = UnsetPrice THEN DefaultPrice ELSE goldPrice
     /\ (Answering /\ ~everScraped /\ goldPrice = UnsetPrice)
          => AnsweredFromUnset]_vars

\* C33 witness: a request was answered with every product at price 0, then
\* the first cycle failed and the default was assigned.
C33_Witness ==
  /\ lastReq = <<UnsetPrice>> /\ Len(response.body) = Len(catalog)
  /\ \A i \in 1 .. Len(response.body) : response.body[i].price = 0
  /\ cycles = EmptyBag /\ ~everScraped /\ goldPrice = DefaultPrice

\* C34: a request is answered in one step, which is no step of a cycle, and
\* every entry of its response is priced from the one value goldPrice held
\* at that step.
C34_OnePricePerResponse ==
  [][Answering =>
       /\ goldPrice' = goldPrice /\ cycles' = cycles
       /\ lastReq' = <<goldPrice>>
       /\ \A e \in Range(response'.body) :
            e.price = MathRound(ComputedPrice(e, goldPrice), PriceScale)]_vars

\* C34 witness: a response of several entries was priced from the default,
\* and a cycle that was in flight has since committed another price.
C34_Witness ==
  /\ lastReq = <<DefaultPrice>> /\ goldPrice \notin {DefaultPrice, UnsetPrice}
  /\ Len(response.body) >= 2
  /\ \A e \in Range(response.body) :
       e.price = MathRound(ComputedPrice(e, DefaultPrice), PriceScale)

\* A step in which the call r writes goldPrice.
Writes(r) ==
  /\ goldPrice' # goldPrice
  /\ \/ AttemptFails(r)
     \/ \E page \in Pages : ExtractOk(r, page)

\* C35: a call started before the newest call never changes goldPrice once
\* the newest call has committed its scraped price.  (Under SpecOrder the
\* newest call is the followed one.)
C35_OlderNeverOverwritesNewer ==
  [][\A r \in InFlight \ Watched :
       (\E w \in Watched : w.returning) => ~Writes(r)]_vars

RECURSIVE OpenIn(_)
\* The browsers the calls of the set S hold open, each call counted as often
\* as it is in flight.
OpenIn(S) ==
  IF S = {} THEN 0
  ELSE LET r == CHOOSE x \in S : TRUE
       IN  Cardinality(r.open) * CopiesIn(r, cycles) + OpenIn(S \ {r})

\* The browsers open in the process.
OpenBrowsers == orphans + OpenIn(InFlight)

\* C36: at most one browser launched by the refresh logic is open at any
\* moment.
C36_AtMostOneBrowser == OpenBrowsers <= 1

\* C37: a cycle writes goldPrice at most once: a failed attempt that is not
\* the last leaves goldPrice unchanged; an attempt that has assigned a
\* scraped price is followed by no other attempt of its cycle; the default
\* is assigned only in the catch of the last attempt, which did not assign a
\* scraped price; and after either the cycle only closes its browser.
C37_OneWritePerCycle ==
  [][\A r \in InFlight :
       /\ (AttemptFails(r) /\ r.attempt < Retries) => goldPrice' = goldPrice
       /\ ~(r.returning /\ r.fallbackAt # 0)
       /\ (r.returning \/ r.fallbackAt # 0) =>
            /\ r.pc = "close"
            /\ ~AttemptFails(r)
            /\ \A page \in Pages : ~ExtractOk(r, page)
            /\ CloseDone(r) => Returns(r)]_vars

\* C37 witness: a cycle failed twice without a write, and its third attempt
\* has assigned the scraped price 95.5 and awaits the close.
C37_Witness ==
  \E r \in InFlight :
    /\ r.attempt = Retries /\ r.returning /\ r.pc = "close"
    /\ goldPrice = 95500 /\ BagCardinality(cycles) = 1

\* C38: the loading overlay is visible exactly while a call of fetchProducts
\* is in flight: visible whenever one is, overlapping calls included, and
\* hidden once none is, whether the calls succeeded or failed.
C38_OverlayWhileFetching ==
  frontend.on => (frontend.loading <=> frontend.fetches # {})

\* The newest call of fetchProducts has rendered its response and no call is
\* in flight.
NewestRendered ==
  /\ frontend.on
  /\ frontend.fetches = {}
  /\ frontend.results[frontend.issued].state = "rendered"

\* C39: once no call of fetchProducts is in flight, the list rendered is the
\* response the newest call received, in whatever order the responses
\* arrived.
C39_NewestResponseRendered ==
  NewestRendered => frontend.rendered = frontend.results[frontend.issued].products

====
